---- MODULE Spec2Model ----
(***************************************************************************)
(* mpris2controller: the Controller daemon (player registry and command   *)
(* dispatch) and the entry_point bootstrap, modelled from                  *)
(* mpris2controller/controller.py.                                         *)
(***************************************************************************)
EXTENDS Integers, Sequences, FiniteSets, TLC

(* ------------------------------ bounds -------------------------------- *)
\* Number of distinct player connections (unique bus names) that can exist.
NumPlayers == 3
\* Longest list of well-known player names bus.list_names() returns at startup.
MaxSeed == 2
\* Number of concurrent invocations of the program (entry_point).
NumClients == 2
\* Most messages that reach the daemon while Controller.__init__ runs.
MaxEarly == 1

(* ----------------------------- constants ------------------------------ *)
MPRIS_INTERFACE == "org.mpris.MediaPlayer2.Player"
OTHER_INTERFACE == "org.mpris.MediaPlayer2"

Players == 1 .. NumPlayers
\* "no player": the value of a player-valued field that holds none.
NoPlayer == 0

\* Values a player reports for its PlaybackStatus property.
Statuses == {"Playing", "Paused", "Stopped"}

\* The changed-properties dictionaries a PropertiesChanged signal carries:
\* functions from a set of property names to values.
NoProps == [k \in {} |-> ""]
PropsChoices ==
    {NoProps, [k \in {"Volume"} |-> "1"]}
    \cup {[k \in {"PlaybackStatus"} |-> s] : s \in Statuses}
    \cup {[k \in {"PlaybackStatus", "Volume"} |-> IF k = "Volume" THEN "1" ELSE "Playing"]}

\* The new_owner argument of NameOwnerChanged: "" (owner lost) or a unique name.
NewOwners == {"", ":1.7"}

Range(s) == {s[i] : i \in 1 .. Len(s)}

\* All sequences over S of length at most n.
SeqsUpTo(S, n) == UNION {[1 .. k -> S] : k \in 0 .. n}

\* The orders in which iterating over the set S can yield its members.
Orders(S) == {o \in [1 .. Cardinality(S) -> S] : Range(o) = S}

(* ---------------------- list and registry operations ------------------ *)
\* list.remove(x): deletes the first occurrence of x; the caller has checked
\* that x occurs (Python raises ValueError otherwise).
list_remove(s, x) ==
    LET i == CHOOSE j \in 1 .. Len(s) : s[j] = x /\ \A k \in 1 .. j - 1 : s[k] # x
    IN  SubSeq(s, 1, i - 1) \o SubSeq(s, i + 1, Len(s))

\* A registry value: the pair of containers of the Controller.
Registry(p, np) == [playing |-> p, not_playing |-> np]

markas_playing(reg, name) ==
    Registry(reg.playing \cup {name},
             IF name \in Range(reg.not_playing)
                 THEN list_remove(reg.not_playing, name)
                 ELSE reg.not_playing)

\* Variants of markas_not_playing with a fault: without the discard, with an
\* unconditional append, and with a re-append of a name already present.
markas_not_playing_keeps_playing(reg, name) ==
    Registry(reg.playing,
             IF name \notin Range(reg.not_playing)
                 THEN Append(reg.not_playing, name)
                 ELSE reg.not_playing)

markas_not_playing_always_appends(reg, name) ==
    Registry(reg.playing \ {name}, Append(reg.not_playing, name))

markas_not_playing_moves_to_tail(reg, name) ==
    Registry(reg.playing \ {name},
             IF name \notin Range(reg.not_playing)
                 THEN Append(reg.not_playing, name)
                 ELSE Append(list_remove(reg.not_playing, name), name))

\* Variant of markas_not_playing with a fault: insert(0, name) for append.
markas_not_playing_prepends(reg, name) ==
    Registry(reg.playing \ {name},
             IF name \notin Range(reg.not_playing)
                 THEN <<name>> \o reg.not_playing
                 ELSE reg.not_playing)

markas_not_playing(reg, name) ==
    Registry(reg.playing \ {name},
             IF name \notin Range(reg.not_playing)
                 THEN Append(reg.not_playing, name)
                 ELSE reg.not_playing)

\* Variant of remove with a fault: the name is only discarded from playing.
remove_playing_only(reg, name) ==
    Registry(reg.playing \ {name}, reg.not_playing)

\* not_playing.remove(name) raises ValueError when name is absent, and the
\* except clause skips the playing.discard(name) that follows it.
remove(reg, name) ==
    IF name \in Range(reg.not_playing)
        THEN Registry(reg.playing \ {name}, list_remove(reg.not_playing, name))
        ELSE reg

(* ------------------------- command dispatch --------------------------- *)
\* One outbound method call on a player's object: its target, the method and
\* whether it returned (ok) or raised DBusException (target unreachable).
Call(n, method_name, down) == [to |-> n, method |-> method_name, ok |-> n \notin down]

\* Variant of call_on_all_playing with a fault: the loop ends after one call.
call_on_all_playing_first_only(reg, method_name, order, down) ==
    [i \in 1 .. (IF Len(order) > 0 THEN 1 ELSE 0) |-> Call(order[i], method_name, down)]

\* for n in self.playing: proxy(n).method_name().  `order` is the order the
\* set iteration yields, `down` the players that cannot be reached.  The
\* result is the sequence of calls made: the first call that raises ends the
\* loop, the exception leaving the method.
call_on_all_playing(reg, method_name, order, down) ==
    LET bad == {i \in 1 .. Len(order) : order[i] \in down}
        stop == IF bad = {} THEN Len(order)
                ELSE CHOOSE i \in bad : \A j \in bad : i <= j
    IN  [i \in 1 .. stop |-> Call(order[i], method_name, down)]

\* Variant of call_on_one_playing with a fault: the test is len >= 1.
call_on_one_playing_any(reg, method_name, order, down) ==
    IF Cardinality(reg.playing) >= 1
        THEN call_on_all_playing(reg, method_name, order, down)
        ELSE <<>>

call_on_one_playing(reg, method_name, order, down) ==
    IF Cardinality(reg.playing) = 1
        THEN call_on_all_playing(reg, method_name, order, down)
        ELSE <<>>

\* Variant of call_on_head_not_playing with a fault: index 0 instead of -1.
call_on_head_not_playing_first(reg, method_name, down) ==
    IF Len(reg.not_playing) > 0
        THEN <<Call(reg.not_playing[1], method_name, down)>>
        ELSE <<>>

call_on_head_not_playing(reg, method_name, down) ==
    IF Len(reg.not_playing) > 0
        THEN <<Call(reg.not_playing[Len(reg.not_playing)], method_name, down)>>
        ELSE <<>>

\* Variant of play_pause with a fault: with nobody playing, Play goes to
\* every not-playing player.
play_pause_resumes_all(reg, order, down) ==
    IF Cardinality(reg.playing) > 0
        THEN call_on_all_playing(reg, "Pause", order, down)
        ELSE [i \in 1 .. Len(reg.not_playing) |-> Call(reg.not_playing[i], "Play", down)]

\* Body of the exported PlayPause method.
play_pause(reg, order, down) ==
    IF Cardinality(reg.playing) > 0
        THEN call_on_all_playing(reg, "Pause", order, down)
        ELSE call_on_head_not_playing(reg, "Play", down)

(* ------------------------------- state -------------------------------- *)
VARIABLES
    pc,           \* the daemon: "seeding" (Controller.__init__), "listening"
                  \* (MainLoop.run) or "dead"
    to_seed,      \* owners of the names of bus.list_names() not yet visited
    playing,      \* Controller.playing
    not_playing,  \* Controller.not_playing
    sent,         \* the calls made on players while handling the last event
    last,         \* the last event handled and the registry it found
    early,        \* messages received during __init__ and not yet dispatched
    track,        \* the histories the specification keeps
    demoted,      \* history: the not-playing players by time of their last demotion
    departed,     \* history: the players lost and not heard of since
    round,        \* history: the progress of a PlayPause round trip
    cpc,          \* per invocation: position in entry_point
    cargs,        \* per invocation: nofork parameter and parsed arguments
    polls,        \* per invocation: probes that failed in the wait loop it is in
    dstate,       \* per invocation: the daemon it launched
    timer,        \* per invocation: the timeout_add source of _callback
    delivered,    \* per invocation: results of its _call_method calls
    saw_up,       \* per invocation: a probe of _daemon_up() has returned True
    exit_code,    \* per invocation: exit status, NotExited while it runs
    owner,        \* the process owning MY_BUS_NAME on the bus, NoOwner if none
    queue         \* the processes queued on the bus for MY_BUS_NAME

dvars == <<pc, to_seed, early, playing, not_playing, sent, last>>
hvars == <<track, demoted, departed, round>>
bvars == <<cpc, cargs, polls, dstate, timer, delivered, saw_up, exit_code, owner, queue>>
vars == <<dvars, hvars, bvars>>

Reg == Registry(playing, not_playing)

\* The record of an event being handled in the current state.
Event(op, name, interface, props, new_owner, down) ==
    [op |-> op, name |-> name, interface |-> interface, props |-> props,
     new_owner |-> new_owner, down |-> down,
     playing |-> playing, not_playing |-> not_playing,
     after_lost |-> /\ last.op = "NameOwnerChanged"
                    /\ last.new_owner = ""
                    /\ last.name = name,
     early |-> early > 0]

SetReg(reg) ==
    /\ playing' = reg.playing
    /\ not_playing' = reg.not_playing

\* No round trip of PlayPause under way.
NoRound ==
    [stage |-> "idle", P |-> {}, waiting |-> {}, before |-> <<>>, final |-> NoPlayer]

DaemonInit ==
    /\ pc = "seeding"
    /\ to_seed \in SeqsUpTo(Players, MaxSeed)
    /\ early = 0
    /\ playing = {}
    /\ not_playing = <<>>
    /\ sent = <<>>
    /\ last = [op |-> "none", name |-> NoPlayer, interface |-> "", props |-> NoProps,
               new_owner |-> "", down |-> {}, playing |-> {}, not_playing |-> <<>>,
               after_lost |-> FALSE, early |-> FALSE]
    /\ demoted = <<>>
    /\ departed = {}
    /\ round = NoRound

\* The handlers of signals and the detection loop call no player method.
NoCalls == sent' = <<>>

\* The main loop dispatches one message: one received during __init__ first,
\* if any is left.
Dispatched == early' = IF early > 0 THEN early - 1 ELSE 0

(* ------------------------- history of the events ---------------------- *)
\* The event e called markas_playing / markas_not_playing on e.name.
CarriesStatus(e) ==
    /\ e.op \in {"Seed", "PropertiesChanged"}
    /\ e.interface = MPRIS_INTERFACE
    /\ "PlaybackStatus" \in DOMAIN e.props
MarkedPlaying(e) == CarriesStatus(e) /\ e.props["PlaybackStatus"] = "Playing"
MarkedNotPlaying(e) == CarriesStatus(e) /\ e.props["PlaybackStatus"] # "Playing"
\* The event e called remove(e.name).
Removed(e) == e.op = "NameOwnerChanged" /\ e.new_owner = ""
\* The event e put e.name into not_playing, from playing or from unknown.
Demoted(e) == MarkedNotPlaying(e) /\ e.name \notin Range(e.not_playing)

\* The players in the order of their last demotion, after the event e.  The
\* history keeps the players that are in not_playing: a player that left it
\* comes back by a new demotion only.
DemotedAfter(e) ==
    IF Demoted(e)
        THEN Append(SelectSeq(demoted, LAMBDA n : n # e.name), e.name)
        ELSE demoted

\* The players whose ownership-lost signal has been handled and from whom no
\* PlaybackStatus signal has been handled since, after the event e.
DepartedAfter(e) ==
    IF Removed(e) THEN departed \cup {e.name}
    ELSE IF e.op = "PropertiesChanged" /\ CarriesStatus(e) THEN departed \ {e.name}
    ELSE departed

\* The progress of a round trip after the event e that made the calls:
\* PlayPause pausing all of P, then one not-playing signal of each member of
\* P and nothing else, then PlayPause again.
RoundAfter(e, calls) ==
    IF e.op = "PlayPause" /\ round.stage = "paused" /\ round.waiting = {}
        THEN [round EXCEPT !.stage = "resumed"]
    ELSE IF /\ e.op = "PlayPause"
            /\ e.playing # {}
            /\ {calls[i].to : i \in {j \in 1 .. Len(calls) : calls[j].ok}} = e.playing
        THEN [stage |-> "paused", P |-> e.playing, waiting |-> e.playing,
              before |-> e.not_playing, final |-> NoPlayer]
    ELSE IF /\ round.stage = "paused"
            /\ e.op = "PropertiesChanged"
            /\ MarkedNotPlaying(e)
            /\ e.name \in round.waiting
        THEN [round EXCEPT !.waiting = @ \ {e.name}, !.final = e.name]
    ELSE NoRound

\* The histories the specification keeps (track) follow the event e.
Noted(e, calls) ==
    /\ demoted' = IF "order" \in track
                      THEN SelectSeq(DemotedAfter(e), LAMBDA n : n \in Range(not_playing'))
                      ELSE demoted
    /\ departed' = IF "departed" \in track THEN DepartedAfter(e) ELSE departed
    /\ round' = IF "round" \in track THEN RoundAfter(e, calls) ELSE round
    /\ UNCHANGED track

(* --------------------------- Controller.__init__ ---------------------- *)
\* One iteration of the detection loop: the owner of the next name is asked
\* for its PlaybackStatus and marked.
Seed ==
    /\ pc = "seeding"
    /\ to_seed # <<>>
    /\ \E status \in Statuses :
        LET name == Head(to_seed)
        IN  /\ SetReg(IF status = "Playing" THEN markas_playing(Reg, name)
                      ELSE markas_not_playing(Reg, name))
            /\ last' = Event("Seed", name, MPRIS_INTERFACE,
                             [k \in {"PlaybackStatus"} |-> status], "", {})
    /\ to_seed' = Tail(to_seed)
    /\ NoCalls
    /\ Noted(last', <<>>)
    /\ UNCHANGED <<pc, early, bvars>>

\* A signal or a method call reaches the connection while __init__ runs: the
\* blocking calls of __init__ dispatch nothing, the message waits for the
\* main loop.
Arrives ==
    /\ pc = "seeding"
    /\ early < MaxEarly
    /\ early' = early + 1
    /\ UNCHANGED <<pc, to_seed, playing, not_playing, sent, last, hvars, bvars>>

\* get_name_owner or Get raises DBusException (the player left the bus after
\* list_names): the exception leaves __init__ and the process ends.
SeedFails ==
    /\ pc = "seeding"
    /\ to_seed # <<>>
    /\ pc' = "dead"
    /\ UNCHANGED <<to_seed, early, playing, not_playing, sent, last, hvars, bvars>>

\* __init__ returns and _start_daemon enters MainLoop().run().
RunMainLoop ==
    /\ pc = "seeding"
    /\ to_seed = <<>>
    /\ pc' = "listening"
    /\ UNCHANGED <<to_seed, early, playing, not_playing, sent, last, hvars, bvars>>

(* ----------------------------- signal handlers ------------------------ *)
\* Variant of handle_signal_properties_changed with a fault: the interface
\* of the signal is not tested.
handle_signal_properties_changed_any_interface ==
    /\ pc = "listening"
    /\ \E interface \in {MPRIS_INTERFACE, OTHER_INTERFACE}, props \in PropsChoices,
          sender \in Players :
        /\ IF "PlaybackStatus" \in DOMAIN props
               THEN IF props["PlaybackStatus"] = "Playing"
                        THEN SetReg(markas_playing(Reg, sender))
                        ELSE SetReg(markas_not_playing(Reg, sender))
               ELSE UNCHANGED <<playing, not_playing>>
        /\ last' = Event("PropertiesChanged", sender, interface, props, "", {})
    /\ NoCalls
    /\ Dispatched
    /\ Noted(last', <<>>)
    /\ UNCHANGED <<pc, to_seed, bvars>>

handle_signal_properties_changed ==
    /\ pc = "listening"
    /\ \E interface \in {MPRIS_INTERFACE, OTHER_INTERFACE}, props \in PropsChoices,
          sender \in Players :
        /\ IF interface = MPRIS_INTERFACE /\ "PlaybackStatus" \in DOMAIN props
               THEN IF props["PlaybackStatus"] = "Playing"
                        THEN SetReg(markas_playing(Reg, sender))
                        ELSE SetReg(markas_not_playing(Reg, sender))
               ELSE UNCHANGED <<playing, not_playing>>
        /\ last' = Event("PropertiesChanged", sender, interface, props, "", {})
    /\ NoCalls
    /\ Dispatched
    /\ Noted(last', <<>>)
    /\ UNCHANGED <<pc, to_seed, bvars>>

\* Variant of handle_signal_name_change with a fault: the signal is handled
\* as soon as it is received, also inside a blocking call of __init__.
handle_signal_name_change_on_receipt ==
    /\ pc \in {"seeding", "listening"}
    /\ \E name \in Players, new_owner \in NewOwners :
        /\ IF new_owner = ""
               THEN SetReg(remove(Reg, name))
               ELSE UNCHANGED <<playing, not_playing>>
        /\ last' = Event("NameOwnerChanged", name, "", NoProps, new_owner, {})
    /\ NoCalls
    /\ Dispatched
    /\ Noted(last', <<>>)
    /\ UNCHANGED <<pc, to_seed, bvars>>

handle_signal_name_change ==
    /\ pc = "listening"
    /\ \E name \in Players, new_owner \in NewOwners :
        /\ IF new_owner = ""
               THEN SetReg(remove(Reg, name))
               ELSE UNCHANGED <<playing, not_playing>>
        /\ last' = Event("NameOwnerChanged", name, "", NoProps, new_owner, {})
    /\ NoCalls
    /\ Dispatched
    /\ Noted(last', <<>>)
    /\ UNCHANGED <<pc, to_seed, bvars>>

(* ---------------------------- exported methods ------------------------ *)
\* Variant of Command with a fault: a player whose call failed is dropped
\* from the registry by the method itself.
Command_drops_unreachable(op, calls, down) ==
    /\ sent' = calls
    /\ last' = Event(op, NoPlayer, "", NoProps, "", down)
    /\ playing' = playing \ {calls[i].to : i \in {j \in 1 .. Len(calls) : ~calls[j].ok}}
    /\ UNCHANGED not_playing
    /\ Dispatched
    /\ Noted(last', calls)
    /\ UNCHANGED <<pc, to_seed, bvars>>

Command(op, calls, down) ==
    /\ sent' = calls
    /\ last' = Event(op, NoPlayer, "", NoProps, "", down)
    /\ UNCHANGED <<playing, not_playing>>
    /\ Dispatched
    /\ Noted(last', calls)
    /\ UNCHANGED <<pc, to_seed, bvars>>

\* The players of the registry: the only ones a method can call, so the
\* only ones whose being unreachable matters to it.
Known == playing \cup Range(not_playing)

PlayPause ==
    /\ pc = "listening"
    /\ \E order \in Orders(playing), down \in SUBSET Known :
        Command("PlayPause", play_pause(Reg, order, down), down)

Next ==
    /\ pc = "listening"
    /\ \E order \in Orders(playing), down \in SUBSET Known :
        Command("Next", call_on_one_playing(Reg, "Next", order, down), down)

Previous ==
    /\ pc = "listening"
    /\ \E order \in Orders(playing), down \in SUBSET Known :
        Command("Previous", call_on_one_playing(Reg, "Previous", order, down), down)

DaemonNext ==
    \/ Seed
    \/ Arrives
    \/ SeedFails
    \/ RunMainLoop
    \/ handle_signal_properties_changed
    \/ handle_signal_name_change
    \/ PlayPause
    \/ Next
    \/ Previous

(* ------------------------ entry_point (bootstrap) --------------------- *)
Clients == 1 .. NumClients
NoOwner == 0
NotExited == 0 - 1
\* args.call when no METHOD is given (None).
NoCall == "None"
\* The wait intervals of the polling loop, in tenths of a second.
WaitSchedule == <<2, 3, 4, 4, 12, 23>>

\* What an invocation can be started with: the nofork parameter of
\* entry_point (False from main, True by default) and the parsed arguments.
\* With nofork True the flag --no-fork changes nothing but the refusal of
\* _parse_args, which the invocations from main cover.
ArgChoices ==
    [nofork : {FALSE}, no_fork : BOOLEAN, call : {NoCall, "PlayPause"}]
    \cup [nofork : {TRUE}, no_fork : {FALSE}, call : {NoCall, "PlayPause"}]

\* _daemon_up(): name_has_owner(MY_BUS_NAME).
daemon_up == owner # NoOwner

\* The bus after process d gave up MY_BUS_NAME or its place in the queue: the
\* head of the queue becomes the owner when the owner leaves.
ReleaseName(d) ==
    IF owner = d
        THEN /\ owner' = IF queue = <<>> THEN NoOwner ELSE Head(queue)
             /\ queue' = IF queue = <<>> THEN <<>> ELSE Tail(queue)
        ELSE /\ owner' = owner
             /\ queue' = SelectSeq(queue, LAMBDA q : q # d)

BootInit ==
    /\ cpc = [c \in Clients |-> "start"]
    /\ cargs \in [Clients -> ArgChoices]
    /\ polls = [c \in Clients |-> 0]
    /\ dstate = [c \in Clients |-> "none"]
    /\ timer = [c \in Clients |-> "none"]
    /\ delivered = [c \in Clients |-> <<>>]
    /\ saw_up = [c \in Clients |-> FALSE]
    /\ exit_code = [c \in Clients |-> NotExited]
    /\ owner = NoOwner
    /\ queue = <<>>

Exit(c, code) ==
    /\ cpc' = [cpc EXCEPT ![c] = "exited"]
    /\ exit_code' = [exit_code EXCEPT ![c] = code]

\* _parse_args: a method together with --no-fork is refused with exit(1).
ParseRejects(c) ==
    /\ cpc[c] = "start"
    /\ cargs[c].no_fork /\ cargs[c].call # NoCall
    /\ Exit(c, 1)
    /\ UNCHANGED <<dvars, hvars, cargs, polls, dstate, timer, delivered, owner, queue, saw_up>>

Parsed(c) == ~(cargs[c].no_fork /\ cargs[c].call # NoCall)

\* The probe finds the name owned: "Daemon already running."
ProbeUp(c) ==
    /\ cpc[c] = "start"
    /\ Parsed(c)
    /\ daemon_up
    /\ cpc' = [cpc EXCEPT ![c] = "call"]
    /\ saw_up' = [saw_up EXCEPT ![c] = TRUE]
    /\ UNCHANGED <<dvars, hvars, cargs, polls, dstate, timer, delivered, exit_code, owner, queue>>

\* The probe finds no owner, foreground: _callback is scheduled when a method
\* was given, and _start_daemon runs in this process.
StartForeground(c) ==
    /\ cpc[c] = "start"
    /\ Parsed(c)
    /\ ~daemon_up
    /\ cargs[c].nofork \/ cargs[c].no_fork
    /\ timer' = [timer EXCEPT ![c] = IF cargs[c].call # NoCall THEN "armed" ELSE "none"]
    /\ cpc' = [cpc EXCEPT ![c] = "daemon"]
    /\ dstate' = [dstate EXCEPT ![c] = "starting"]
    /\ UNCHANGED <<dvars, hvars, cargs, polls, delivered, exit_code, owner, queue, saw_up>>

\* The probe finds no owner, background: _fork_daemon starts the daemon in a
\* child process and the parent enters the wait loop.
ForkDaemon(c) ==
    /\ cpc[c] = "start"
    /\ Parsed(c)
    /\ ~daemon_up
    /\ ~(cargs[c].nofork \/ cargs[c].no_fork)
    /\ cpc' = [cpc EXCEPT ![c] = "wait"]
    /\ dstate' = [dstate EXCEPT ![c] = "starting"]
    /\ UNCHANGED <<dvars, hvars, cargs, polls, timer, delivered, exit_code, owner, queue, saw_up>>

\* Variant of Poll with a fault: the loop has no else clause, so an exhausted
\* schedule falls through to the call.
Poll_falls_through(c) ==
    /\ cpc[c] = "wait"
    /\ polls[c] < Len(WaitSchedule)
    /\ IF daemon_up
           THEN /\ cpc' = [cpc EXCEPT ![c] = "call"]
                /\ polls' = [polls EXCEPT ![c] = 0]
                /\ saw_up' = [saw_up EXCEPT ![c] = TRUE]
           ELSE /\ polls' = [polls EXCEPT ![c] = @ + 1]
                /\ cpc' = [cpc EXCEPT ![c] =
                              IF polls[c] + 1 = Len(WaitSchedule) THEN "call" ELSE "wait"]
                /\ UNCHANGED saw_up
    /\ UNCHANGED <<dvars, hvars, cargs, dstate, timer, delivered, exit_code, owner, queue>>

\* One iteration of the wait loop: sleep, probe; leave the loop when the name
\* is owned, exit(1) when the schedule is exhausted.
Poll(c) ==
    /\ cpc[c] = "wait"
    /\ polls[c] < Len(WaitSchedule)
    /\ IF daemon_up
           THEN /\ cpc' = [cpc EXCEPT ![c] = "call"]
                /\ polls' = [polls EXCEPT ![c] = 0]
                /\ saw_up' = [saw_up EXCEPT ![c] = TRUE]
                /\ UNCHANGED exit_code
           ELSE /\ polls' = [polls EXCEPT ![c] = @ + 1]
                /\ IF polls[c] + 1 = Len(WaitSchedule)
                       THEN Exit(c, 1)
                       ELSE UNCHANGED <<cpc, exit_code>>
                /\ UNCHANGED saw_up
    /\ UNCHANGED <<dvars, hvars, cargs, dstate, timer, delivered, owner, queue>>

\* The daemon that answers a call on MY_BUS_NAME is its owner, once its main
\* loop runs.
Serving == {d \in Clients : owner = d /\ dstate[d] = "serving"}

\* _call_method(method_name): True when the call on the daemon returns, False
\* on DBusException (no owner, no reply, or the method raised in the daemon).
CallResults == IF Serving # {} THEN BOOLEAN ELSE {FALSE}

\* Variant of CallAndExit with a fault: a call that failed is made again.
CallAndExit_retries(c) ==
    /\ cpc[c] = "call"
    /\ IF cargs[c].call # NoCall
           THEN \E ok \in CallResults :
                    delivered' = [delivered EXCEPT ![c] =
                                     IF ok THEN Append(@, ok) ELSE Append(Append(@, ok), ok)]
           ELSE UNCHANGED delivered
    /\ cpc' = [cpc EXCEPT ![c] = "exited"]
    /\ exit_code' = [exit_code EXCEPT ![c] = 0]
    /\ UNCHANGED <<dvars, hvars, cargs, polls, dstate, timer, owner, queue, saw_up>>

\* Lines 247-251: the single _call_method when a method was given, its result
\* dropped, then exit().
CallAndExit(c) ==
    /\ cpc[c] = "call"
    /\ IF cargs[c].call # NoCall
           THEN \E ok \in CallResults :
                    delivered' = [delivered EXCEPT ![c] = Append(@, ok)]
           ELSE UNCHANGED delivered
    /\ Exit(c, 0)
    /\ UNCHANGED <<dvars, hvars, cargs, polls, dstate, timer, owner, queue, saw_up>>

\* Controller.__init__, line 50: BusName requests MY_BUS_NAME with the default
\* flags, so the request of a name that is owned is queued by the bus and
\* the constructor goes on.
ClaimName(d) ==
    /\ dstate[d] = "starting"
    /\ IF owner = NoOwner
           THEN owner' = d /\ UNCHANGED queue
           ELSE queue' = Append(queue, d) /\ UNCHANGED owner
    /\ dstate' = [dstate EXCEPT ![d] = "seeding"]
    /\ UNCHANGED <<dvars, hvars, cpc, cargs, polls, timer, delivered, exit_code, saw_up>>

\* __init__ returns and MainLoop().run() starts.
Serve(d) ==
    /\ dstate[d] = "seeding"
    /\ dstate' = [dstate EXCEPT ![d] = "serving"]
    /\ UNCHANGED <<dvars, hvars, cpc, cargs, polls, timer, delivered, exit_code, owner, queue, saw_up>>

\* The count beyond which _callback stops asking to be run again.
MaxCount == 5

\* The scheduled _callback runs in the main loop.  _call_method() is called
\* without its argument and raises TypeError: no call is made, and the source
\* of a callback that raised is removed.
Callback(d) ==
    /\ timer[d] = "armed"
    /\ dstate[d] = "serving"
    /\ timer' = [timer EXCEPT ![d] = "removed"]
    /\ UNCHANGED <<dvars, hvars, cpc, cargs, polls, dstate, delivered, exit_code, owner, queue, saw_up>>

\* A daemon process ends (an exception in __init__, a signal, a bus
\* disconnect): its connection closes and the bus releases its name.  In the
\* foreground the invocation is that process.
DaemonDies(d) ==
    /\ dstate[d] \in {"seeding", "serving"}
    /\ dstate' = [dstate EXCEPT ![d] = "dead"]
    /\ ReleaseName(d)
    /\ IF cpc[d] = "daemon" THEN Exit(d, 1) ELSE UNCHANGED <<cpc, exit_code>>
    /\ UNCHANGED <<dvars, hvars, cargs, polls, timer, delivered, saw_up>>

BootNext ==
    \E c \in Clients :
        \/ ParseRejects(c)
        \/ ProbeUp(c)
        \/ StartForeground(c)
        \/ ForkDaemon(c)
        \/ Poll(c)
        \/ CallAndExit(c)
        \/ ClaimName(c)
        \/ Serve(c)
        \/ Callback(c)
        \/ DaemonDies(c)

(* --------------------------- specifications --------------------------- *)
\* The invocations at rest, for the specification of the daemon alone.
BootIdle ==
    /\ cpc = [c \in Clients |-> "start"]
    /\ cargs = [c \in Clients |-> [nofork |-> FALSE, no_fork |-> FALSE, call |-> NoCall]]
    /\ polls = [c \in Clients |-> 0]
    /\ dstate = [c \in Clients |-> "none"]
    /\ timer = [c \in Clients |-> "none"]
    /\ delivered = [c \in Clients |-> <<>>]
    /\ saw_up = [c \in Clients |-> FALSE]
    /\ exit_code = [c \in Clients |-> NotExited]
    /\ owner = NoOwner
    /\ queue = <<>>

\* The registry untouched, for the specification of the bootstrap alone.
DaemonIdle ==
    /\ DaemonInit
    /\ to_seed = <<>>

\* The Controller of one daemon: detection, signals and commands.
Init == DaemonInit /\ BootIdle /\ track = {}
Spec == Init /\ [][DaemonNext]_vars

\* The same, with the history of the demotions kept.
InitOrder == DaemonInit /\ BootIdle /\ track = {"order"}
SpecOrder == InitOrder /\ [][DaemonNext]_vars

\* The same, with the history of the lost players kept.
InitDeparted == DaemonInit /\ BootIdle /\ track = {"departed"}
SpecDeparted == InitDeparted /\ [][DaemonNext]_vars

\* The same, with the history of the PlayPause round trip kept.
InitRound == DaemonInit /\ BootIdle /\ track = {"round"}
SpecRound == InitRound /\ [][DaemonNext]_vars

\* Concurrent invocations of entry_point and the daemons they launch.
InitBoot == BootInit /\ DaemonIdle /\ track = {}
SpecBoot == InitBoot /\ [][BootNext]_vars

(* ================== properties of the registry and dispatch =========== *)
\* C1 (invariant I1): no player identifier is in both playing and not_playing.
C1_NoPlayerInBoth == playing \cap Range(not_playing) = {}

\* C1 witness: a player that was playing has just been marked not playing
\* while another player is playing.
C1_Witness ==
    /\ MarkedNotPlaying(last)
    /\ last.name \in last.playing
    /\ last.name \in Range(not_playing)
    /\ playing # {}

\* C2 (invariant I2): not_playing contains every identifier at most once.
C2_NoDuplicates ==
    \A i, j \in 1 .. Len(not_playing) : not_playing[i] = not_playing[j] => i = j

\* C2 witness: markas_not_playing has run for a player already in not_playing
\* that holds two or more players.
C2_Witness ==
    /\ MarkedNotPlaying(last)
    /\ last.name \in Range(last.not_playing)
    /\ Len(not_playing) >= 2

\* C3: PlayPause with a non-empty playing set and no failing call sends Pause
\* to every member of playing exactly once and nothing to a not-playing player.
C3_PlayPausePausesAllPlaying ==
    (/\ last.op = "PlayPause"
     /\ last.playing # {}
     /\ \A i \in 1 .. Len(sent) : sent[i].ok)
    => /\ Len(sent) = Cardinality(last.playing)
       /\ {sent[i].to : i \in 1 .. Len(sent)} = last.playing
       /\ \A i \in 1 .. Len(sent) :
            /\ sent[i].method = "Pause"
            /\ sent[i].to \notin Range(last.not_playing)

\* C3 witness: PlayPause handled with two playing players and a not-playing
\* one, all calls succeeding.
C3_Witness ==
    /\ last.op = "PlayPause"
    /\ Cardinality(last.playing) >= 2
    /\ last.not_playing # <<>>
    /\ Len(sent) >= 2
    /\ \A i \in 1 .. Len(sent) : sent[i].ok

\* C4: PlayPause with an empty playing set sends Play to the tail of
\* not_playing only, and nothing at all when not_playing is empty too.
C4_PlayPausePlaysTail ==
    (last.op = "PlayPause" /\ last.playing = {})
    => IF last.not_playing # <<>>
           THEN /\ Len(sent) = 1
                /\ sent[1].to = last.not_playing[Len(last.not_playing)]
                /\ sent[1].method = "Play"
           ELSE sent = <<>>

\* C4 witness: PlayPause handled with nobody playing and three not-playing
\* players.
C4_Witness ==
    /\ last.op = "PlayPause"
    /\ last.playing = {}
    /\ Len(last.not_playing) >= 3
    /\ Len(sent) = 1

\* C5: Next and Previous call the one playing player when playing has exactly
\* one member and call nobody otherwise.
C5_NextPreviousOnlyOnePlaying ==
    (last.op \in {"Next", "Previous"})
    => IF Cardinality(last.playing) = 1
           THEN /\ Len(sent) = 1
                /\ sent[1].to \in last.playing
                /\ sent[1].method = last.op
           ELSE sent = <<>>

\* C5 witness: Next handled with two playing players and a not-playing one.
C5_Witness ==
    /\ last.op = "Next"
    /\ Cardinality(last.playing) >= 2
    /\ last.not_playing # <<>>

\* C6: in a PlayPause broadcast to two or more playing players of which one
\* is unreachable, every other playing player still receives its Pause call.
C6_FailureIsIsolated ==
    (/\ last.op = "PlayPause"
     /\ Cardinality(last.playing) >= 2
     /\ Cardinality(last.playing \cap last.down) = 1)
    => \A p \in last.playing \ last.down :
         \E i \in 1 .. Len(sent) :
            sent[i].to = p /\ sent[i].method = "Pause" /\ sent[i].ok

\* C7: after NameOwnerChanged with an empty new owner for a name, the name is
\* in neither container; an unknown name leaves the registry unchanged.
C7_LostOwnerIsErased ==
    Removed(last)
    => /\ last.name \notin playing
       /\ last.name \notin Range(not_playing)
       /\ (last.name \notin last.playing \cup Range(last.not_playing)
            => playing = last.playing /\ not_playing = last.not_playing)

\* C8: markas_not_playing of a player already in not_playing leaves
\* not_playing (the player's position included) and playing as they were.
C8_RemarkKeepsPosition ==
    (MarkedNotPlaying(last) /\ last.name \in Range(last.not_playing))
    => /\ not_playing = last.not_playing
       /\ playing = last.playing

\* C8 witness: a player that is not the tail of not_playing is marked not
\* playing again while another player is playing.
C8_Witness ==
    /\ MarkedNotPlaying(last)
    /\ Len(last.not_playing) >= 2
    /\ last.name = last.not_playing[1]
    /\ last.playing # {}

\* The registry reg in which the player id has never been seen.
NeverSeen(reg, id) ==
    Registry(reg.playing \ {id}, SelectSeq(reg.not_playing, LAMBDA n : n # id))

\* C9: remove(id) followed by a Mark call for id gives the registry that the
\* Mark call gives on the registry in which id was never seen.  last is the
\* handled remove with the registry it found; the step is the Mark call.
C9_RemoveThenMarkIsFresh ==
    [][(Removed(last) /\ CarriesStatus(last') /\ last'.name = last.name)
       => LET fresh == NeverSeen(Registry(last.playing, last.not_playing), last.name)
          IN  Reg' = IF MarkedPlaying(last')
                         THEN markas_playing(fresh, last.name)
                         ELSE markas_not_playing(fresh, last.name)]_vars

\* C9 witness: a player has been marked right after its ownership-lost signal
\* was handled, with two other players in the registry.
C9_Witness ==
    /\ CarriesStatus(last)
    /\ last.after_lost
    /\ Cardinality((playing \cup Range(not_playing)) \ {last.name}) >= 2

(* ======================= properties of the bootstrap ================== *)
\* C10: at every moment at most one daemon is running: a daemon launched while
\* MY_BUS_NAME is owned does not reach its main loop.
C10_SingleInstance ==
    Cardinality({d \in Clients : dstate[d] = "serving"}) <= 1

\* The invocation c took the background path: neither nofork nor --no-fork.
Background(c) == ~(cargs[c].nofork \/ cargs[c].no_fork)

\* C11: a background invocation whose probe was false at the first check and
\* at all checks of the wait schedule exits with status 1 and makes no
\* command call.
C11_ExhaustedScheduleIsFatal ==
    \A c \in Clients :
        polls[c] = Len(WaitSchedule)
        => /\ cpc[c] = "exited"
           /\ exit_code[c] = 1
           /\ delivered[c] = <<>>

\* C11 witness: an invocation with a method has exhausted the schedule after
\* forking its daemon.
C11_Witness ==
    \E c \in Clients :
        /\ polls[c] = Len(WaitSchedule)
        /\ cargs[c].call # NoCall
        /\ Background(c)
        /\ dstate[c] # "none"
        /\ ~saw_up[c]

\* C12: the scheduled delivery callback stops for good only after an attempt
\* to deliver the command succeeded or after MaxCount further attempts failed.
C12_CallbackRetriesDelivery ==
    \A d \in Clients :
        timer[d] = "removed"
        => \/ \E i \in 1 .. Len(delivered[d]) : delivered[d][i]
           \/ Len(delivered[d]) = MaxCount + 1

\* C13: an invocation with a method exits with status 0 only if its command
\* call succeeded, and with status 1 if the call failed.
C13_ExitStatusTellsDelivery ==
    \A c \in Clients :
        (cpc[c] = "exited" /\ cargs[c].call # NoCall)
        => /\ exit_code[c] = 0 => delivered[c] = <<TRUE>>
           /\ delivered[c] = <<FALSE>> => exit_code[c] = 1

\* C17: a background invocation with a method makes at most one command call,
\* and only after a probe of the coordinator name returned true.
C17_OneCallAfterProbe ==
    \A c \in Clients :
        (Background(c) /\ cargs[c].call # NoCall)
        => /\ Len(delivered[c]) <= 1
           /\ delivered[c] # <<>> => saw_up[c]

\* C17 witness: a background invocation that forked its daemon has made its
\* call after a polled probe, and the call failed.
C17_Witness ==
    \E c \in Clients :
        /\ Background(c)
        /\ dstate[c] # "none"
        /\ delivered[c] = <<FALSE>>
        /\ cpc[c] = "exited"

(* ============ further properties of the registry and dispatch ========= *)
\* C14: handling PlayPause, Next or Previous leaves playing and not_playing
\* as they were, also when a call to a player fails.
C14_CommandsKeepRegistry ==
    last.op \in {"PlayPause", "Next", "Previous"}
    => playing = last.playing /\ not_playing = last.not_playing

\* C14 witness: a command has been handled in which a call to a playing
\* player failed.
C14_Witness ==
    /\ last.op \in {"PlayPause", "Next", "Previous"}
    /\ \E i \in 1 .. Len(sent) : ~sent[i].ok /\ sent[i].to \in last.playing
    /\ last.not_playing # <<>>

\* C18: a PropertiesChanged signal of another interface, or without a
\* PlaybackStatus key, leaves playing and not_playing unchanged.
C18_OtherSignalsAreNoOps ==
    (last.op = "PropertiesChanged" /\ ~CarriesStatus(last))
    => playing = last.playing /\ not_playing = last.not_playing

\* C18 witness: a PlaybackStatus change of another interface, sent by a
\* player the registry does not know, has been handled.
C18_Witness ==
    /\ last.op = "PropertiesChanged"
    /\ last.interface # MPRIS_INTERFACE
    /\ "PlaybackStatus" \in DOMAIN last.props
    /\ last.name \notin last.playing \cup Range(last.not_playing)
    /\ last.playing \cup Range(last.not_playing) # {}

\* The position of x in the sequence s.
Index(s, x) == CHOOSE i \in 1 .. Len(s) : s[i] = x

\* C15: for any two players of not_playing, one is before the other exactly
\* when its last demotion (the last event that put it into not_playing, from
\* playing or from unknown) came before the other's.
C15_OrderIsDemotionOrder ==
    \A x, y \in Range(not_playing) :
        /\ x \in Range(demoted)
        /\ y \in Range(demoted)
        /\ Index(not_playing, x) < Index(not_playing, y)
            <=> Index(demoted, x) < Index(demoted, y)

\* C15 witness: a player that was playing has been demoted behind two others
\* that are not in the order of their identifiers.
C15_Witness ==
    /\ Demoted(last)
    /\ last.name \in last.playing
    /\ Len(not_playing) >= 3
    /\ not_playing[1] > not_playing[2]
    /\ not_playing[Len(not_playing)] = last.name

\* C16: no signal and no command is handled before the detection loop of
\* __init__ has marked every player it enumerated.
C16_NothingHandledWhileSeeding ==
    last.op \notin {"none", "Seed"} => pc = "listening" /\ to_seed = <<>>

\* C16 witness: a message received during the detection of a player has been
\* handled by the main loop.
C16_Witness ==
    /\ last.early
    /\ last.op \notin {"none", "Seed"}
    /\ pc = "listening"
    /\ last.playing \cup Range(last.not_playing) # {}

\* C19: a command calls no player that is lost and not heard of since, and
\* such a player does not count for the one playing player of Next/Previous.
C19_DepartedPlayerIsLeftAlone ==
    last.op \in {"PlayPause", "Next", "Previous"}
    => /\ \A i \in 1 .. Len(sent) : sent[i].to \notin departed
       /\ (last.op \in {"Next", "Previous"} /\ Cardinality(last.playing \ departed) = 1)
            => \E i \in 1 .. Len(sent) : sent[i].to \in last.playing \ departed

\* C20: after PlayPause paused all of P and each member of P signalled a
\* not-playing status, with nothing else handled, the next PlayPause sends
\* Play to one player: the member of P that signalled last, never a player
\* that was in not_playing before.
C20_RoundTripResumesLastPaused ==
    round.stage = "resumed"
    => /\ Len(sent) = 1
       /\ sent[1].method = "Play"
       /\ sent[1].to = round.final
       /\ sent[1].to \in round.P
       /\ sent[1].to \notin Range(round.before)

\* C20 witness: a round trip over two playing players, with another player
\* not playing from the start, has been completed.
C20_Witness ==
    /\ round.stage = "resumed"
    /\ Cardinality(round.P) >= 2
    /\ round.before # <<>>

====
